---------------------------- MODULE Spec2Model ----------------------------
(***************************************************************************)
(* The extraction pipeline of extractor.py as a state machine: the command *)
(* line driver runs build_models_for_page on each source in turn; a run    *)
(* fetches HTML (get_html), short-circuits on empty content, classifies    *)
(* (call_llm) and persists (write_models_to_files).  The file system is    *)
(* the only state shared between runs.                                     *)
(*                                                                         *)
(* Text is a sequence of one-character strings, so that slicing, stripping *)
(* and slugify are computed.  File names, types and paths are strings.     *)
(* A JSON value whose Python type the code depends on is a record          *)
(* [t |-> tag, v |-> value] with tag in dict, list, str, num, null.        *)
(***************************************************************************)
EXTENDS Integers, Sequences, FiniteSets, TLC

(***************************************************************************)
(* Bounds of the model.                                                    *)
(***************************************************************************)
MaxSnippets == 2

(***************************************************************************)
(* Program constants.                                                      *)
(***************************************************************************)
TitleCap == 60
DescCap == 160

CounterPad == 3

(***************************************************************************)
(* Characters and text.                                                    *)
(***************************************************************************)
Lowers ==
    <<"a","b","c","d","e","f","g","h","i","j","k","l","m",
      "n","o","p","q","r","s","t","u","v","w","x","y","z">>

Uppers ==
    <<"A","B","C","D","E","F","G","H","I","J","K","L","M",
      "N","O","P","Q","R","S","T","U","V","W","X","Y","Z">>

Digits ==
    <<"0","1","2","3","4","5","6","7","8","9">>

Whitespace ==
    {" ", "\n", "\t", "\r"}

Range(s) ==
    {s[k] : k \in DOMAIN s}

\* str.lower() on one character
lower(c) ==
    IF \E k \in DOMAIN Uppers : Uppers[k] = c
    THEN Lowers[CHOOSE k \in DOMAIN Uppers : Uppers[k] = c]
    ELSE c

\* the character class [a-z0-9] of slugify's first pattern
IsSlugChar(c) ==
    c \in Range(Lowers) \cup Range(Digits)

\* text[:n]
Slice(text, n) ==
    SubSeq(text, 1, IF Len(text) < n THEN Len(text) ELSE n)

RECURSIVE LStrip(_, _)
LStrip(s, cs) ==
    IF s # <<>> /\ Head(s) \in cs THEN LStrip(Tail(s), cs) ELSE s

RECURSIVE RStrip(_, _)
RStrip(s, cs) ==
    IF s # <<>> /\ s[Len(s)] \in cs THEN RStrip(SubSeq(s, 1, Len(s) - 1), cs) ELSE s

\* str.strip() and str.strip(chars)
strip(s, cs) ==
    RStrip(LStrip(s, cs), cs)

\* the characters of a text as one string
RECURSIVE Join(_)
Join(s) ==
    IF s = <<>> THEN "" ELSE Head(s) \o Join(Tail(s))

\* re.sub(r'[^a-z0-9]+', '-', s): every maximal run of other characters
\* becomes one hyphen
RECURSIVE SubNonSlug(_)
SubNonSlug(s) ==
    IF s = <<>> THEN <<>>
    ELSE IF IsSlugChar(Head(s)) THEN <<Head(s)>> \o SubNonSlug(Tail(s))
    ELSE <<"-">> \o SubNonSlug(LStrip(Tail(s), {c \in Range(s) : ~IsSlugChar(c)}))

\* re.sub(r'-+', '-', s)
RECURSIVE SubHyphens(_)
SubHyphens(s) ==
    IF s = <<>> THEN <<>>
    ELSE IF Head(s) # "-" THEN <<Head(s)>> \o SubHyphens(Tail(s))
    ELSE <<"-">> \o SubHyphens(LStrip(Tail(s), {"-"}))

slugify(url_or_name) ==
    LET lowered == [k \in DOMAIN strip(url_or_name, Whitespace) |->
                        lower(strip(url_or_name, Whitespace)[k])]
        slug == strip(SubHyphens(SubNonSlug(lowered)), {"-"})
    IN  IF slug = <<>> THEN "page" ELSE Join(slug)


(***************************************************************************)
(* JSON values.                                                            *)
(***************************************************************************)
JDict(f) ==
    [t |-> "dict", v |-> f]

JList(s) ==
    [t |-> "list", v |-> s]

JStr(s) ==
    [t |-> "str", v |-> s]

JNum(n) ==
    [t |-> "num", v |-> n]

JNull ==
    [t |-> "null", v |-> <<>>]

EmptyDict ==
    [k \in {} |-> <<>>]

\* dict.get(key, default)
Get(d, key, default) ==
    IF key \in DOMAIN d THEN d[key] ELSE default

\* d[key] = x
SetKey(d, key, x) ==
    [q \in DOMAIN d \cup {key} |-> IF q = key THEN x ELSE d[q]]

\* Python's "not x" on a JSON value
Falsy(j) ==
    \/ j.t = "null"
    \/ j.t = "num" /\ j.v = 0
    \/ j.t \in {"list", "str"} /\ j.v = <<>>
    \/ j.t = "dict" /\ DOMAIN j.v = {}

(***************************************************************************)
(* The inputs of a run: the sources on the command line, the HTML that is  *)
(* fetched, what the DOM parser extracts from it, and what the             *)
(* classification service answers.                                         *)
(***************************************************************************)
SrcUpper ==
    <<"A", "/", "b">>

SrcLower ==
    <<"a", "-", "b">>

SrcPunct ==
    <<"!">>

LocalFlag ==
    <<"-", "-", "l", "o", "c", "a", "l">>

ArgvSamples ==
    { <<SrcUpper, SrcUpper>>, <<SrcUpper, LocalFlag, SrcLower>>,
      <<SrcPunct, SrcLower>>, <<SrcPunct>>, <<LocalFlag>> }

HtmlSamples ==
    { <<>>, <<" ", "\n">>, <<"<", "p", ">">> }

\* the k-th snippet text: longer than both caps, between them, or short
TextLen(k) ==
    IF k = 1 THEN DescCap + 1 ELSE IF k = 2 THEN TitleCap + 1 ELSE k

TextAt(k) ==
    [p \in 1..TextLen(k) |-> Lowers[((p + k) % 26) + 1]]

SnippetAt(k) ==
    [selector |-> IF k = 1 THEN "header" ELSE "h1", text |-> TextAt(k)]

Metas ==
    { EmptyDict, [title |-> <<"H", "i">>] }

Extractions ==
    { [meta |-> m, snippets |-> [k \in 1..n |-> SnippetAt(k)]] :
         m \in Metas, n \in 0..MaxSnippets }

PageOf(page_url) ==
    JDict([page_url |-> page_url, page_title |-> <<"T">>])

Banner ==
    JDict([type |-> "banner", fields |-> [Title |-> <<"B">>]])

Suffixed ==
    JDict([type |-> "banner_001", fields |-> [Title |-> <<"S">>]])

\* what ollama.chat followed by safe_json_parse yields
Responses(page_url) ==
    { [kind |-> "svc_error", value |-> JNull],
      [kind |-> "parse_error", value |-> JNull],
      [kind |-> "json", value |-> JList(<<>>)],
      [kind |-> "json", value |-> JDict([page |-> PageOf(page_url)])],
      [kind |-> "json", value |-> JDict([models |-> JList(<<>>)])],
      [kind |-> "json", value |->
          JDict([page |-> PageOf(page_url), models |-> JList(<<Banner>>)])],
      [kind |-> "json", value |->
          JDict([page |-> PageOf(page_url),
                 models |-> JList(<<Banner, Suffixed, JDict(EmptyDict), Banner>>)])],
      [kind |-> "json", value |->
          JDict([page |-> PageOf(page_url), models |-> JList(<<JStr(<<"x">>)>>)])],
      [kind |-> "json", value |->
          JDict([page |-> JStr(<<"x">>), models |-> JList(<<Banner>>)])],
      [kind |-> "json", value |-> JDict([models |-> JNum(5)])] }

(***************************************************************************)
(* call_llm                                                                *)
(***************************************************************************)
\* the substitute of the except clause
LlmFallback(meta_dict, page_url) ==
    JDict([page |-> JDict([page_url |-> page_url,
                           page_title |-> Get(meta_dict, "title", <<"N", "/", "A">>)]),
           models |-> JList(<<>>)])

\* one model per snippet
SnippetModel(s, page_url) ==
    JDict([type |-> "custom_block",
           fields |-> [title |-> Slice(s.text, TitleCap),
                       description |-> Slice(s.text, DescCap),
                       image |-> <<>>,
                       url |-> page_url]])

\* "models" not in parsed or not parsed["models"], for a dict
LacksModels(d) ==
    "models" \notin DOMAIN d \/ Falsy(d["models"])

\* The value call_llm returns, or raised: on a value that is no dict the
\* membership test (null, num), the subscript or the item assignment (list,
\* str) raises TypeError outside the try.
call_llm(meta_dict, snippets, page_url, resp) ==
    LET parsed == IF resp.kind = "json" THEN resp.value
                  ELSE LlmFallback(meta_dict, page_url)
    IN  IF parsed.t # "dict" THEN [raised |-> TRUE, value |-> JNull]
        ELSE IF LacksModels(parsed.v)
        THEN [raised |-> FALSE,
              value |-> JDict(SetKey(parsed.v, "models",
                          JList([k \in DOMAIN snippets |->
                                    SnippetModel(snippets[k], page_url)])))]
        ELSE [raised |-> FALSE, value |-> parsed]

(***************************************************************************)
(* Files.                                                                  *)
(***************************************************************************)
RECURSIVE Decimal(_)
Decimal(n) ==
    IF n < 10 THEN <<Digits[n + 1]>> ELSE Decimal(n \div 10) \o <<Digits[(n % 10) + 1]>>

RECURSIVE ZeroFill(_, _)
ZeroFill(s, width) ==
    IF Len(s) < width THEN ZeroFill(<<"0">> \o s, width) ELSE s

\* f"{t}_{counters[t]:03d}.json"
FileName(t, n) ==
    t \o "_" \o Join(ZeroFill(Decimal(n), CounterPad)) \o ".json"

\* str(fpath.relative_to(OUT_DIR)) for fpath = MODELS_DIR / slug / fname
ModelPath(sl, fname) ==
    "models/" \o sl \o "/" \o fname

\* counters.setdefault(t,0); counters[t]+=1, the increment taken too late:
\* the first file of a type gets the number 0
Bump_FromZero(ctrs, t) ==
    SetKey(ctrs, t, Get(ctrs, t, -1) + 1)

\* PAGES_DIR / f"{slug}.json"
PagePath(sl) ==
    "pages/" \o sl \o ".json"

\* counters.setdefault(t,0); counters[t]+=1
Bump(ctrs, t) ==
    SetKey(ctrs, t, Get(ctrs, t, 0) + 1)

FileOf(body) ==
    [complete |-> TRUE, json |-> body]

Truncated ==
    [complete |-> FALSE, json |-> <<>>]

\* open(path,"w") then json.dump: done, failed before the file was opened,
\* or failed after open truncated it
WriteOutcomes ==
    {"ok", "unopened", "truncated"}

WriteFile(files, path, body, outcome) ==
    IF outcome = "ok" THEN SetKey(files, path, FileOf(body))
    ELSE IF outcome = "truncated" THEN SetKey(files, path, Truncated)
    ELSE files

\* the placeholder document of build_models_for_page
Dummy(source, sl) ==
    [page_url |-> source,
     page_uid |-> "page_" \o sl,
     models |-> <<>>,
     metadata |-> [title |-> <<"N", "/", "A">>, description |-> <<>>]]

(***************************************************************************)
(* State.                                                                  *)
(***************************************************************************)
VARIABLES
    argv,        \* sys.argv[1:]
    i,           \* position of the driver's loop in sources
    pc,          \* where the driver, or the run it started, stands
    fs,          \* the files under OUT_DIR: path -> contents
    slug, html, meta, snippets,       \* locals of build_models_for_page
    engineIdx, browser,               \* get_html's loop and its local
    attempts,    \* the engines get_html has tried, in order
    resp,        \* what the service answered in this run
    llm_ret,     \* what call_llm gave back
    llmCalls,    \* how often this run invoked the classifier
    models_obj,  \* the argument of write_models_to_files
    written, counters, mi,            \* locals of write_models_to_files
    wlog,        \* the file writes of this run, in order
    doc,         \* the document the run returns
    err,         \* the exception the run raises
    hist         \* the finished runs, in order

vars ==
    <<argv, i, pc, fs, slug, html, meta, snippets, engineIdx, browser, attempts,
      resp, llm_ret, llmCalls, models_obj, written, counters, mi, wlog, doc,
      err, hist>>

fetchVars ==
    <<engineIdx, browser, attempts>>

llmVars ==
    <<resp, llm_ret, llmCalls>>

writerVars ==
    <<written, counters, mi>>

\* sources = [a for a in sys.argv[1:] if a != "--local"]
sources ==
    SelectSeq(argv, LAMBDA a : a # LocalFlag)

source ==
    sources[i]

\* [p.firefox, p.chromium]
Engines ==
    <<"firefox", "chromium">>

\* the calls inside the try of get_html
EngineSteps ==
    {"launch", "new_page", "goto", "wait_for_load_state", "content", "close"}

NoResp ==
    [kind |-> "none", value |-> JNull]

NoRet ==
    [raised |-> FALSE, value |-> JNull]

NoDoc ==
    [page_url |-> <<>>, page_uid |-> "", models |-> <<>>,
     metadata |-> [title |-> <<>>, description |-> <<>>]]

NoErr ==
    [in |-> "", type |-> ""]

Init ==
    /\ argv \in ArgvSamples
    /\ i = 1
    /\ pc = "main"
    /\ fs = EmptyDict
    /\ slug = ""
    /\ html = <<>>
    /\ meta = EmptyDict
    /\ snippets = <<>>
    /\ engineIdx = 0
    /\ browser = "unbound"
    /\ attempts = <<>>
    /\ resp = NoResp
    /\ llm_ret = NoRet
    /\ llmCalls = 0
    /\ models_obj = JNull
    /\ written = <<>>
    /\ counters = EmptyDict
    /\ mi = 0
    /\ wlog = <<>>
    /\ doc = NoDoc
    /\ err = NoErr
    /\ hist = <<>>

\* the run raises e
Raise(where, type) ==
    /\ pc' = "raised"
    /\ err' = [in |-> where, type |-> type]

(***************************************************************************)
(* The driver's loop.                                                      *)
(***************************************************************************)
\* for s in sources: build_models_for_page(s) is entered and computes the slug
StartSource ==
    /\ pc = "main"
    /\ i <= Len(sources)
    /\ slug' = slugify(source)
    /\ pc' = "get_html"
    /\ UNCHANGED <<argv, i, fs, html, meta, snippets, fetchVars, llmVars,
                   models_obj, writerVars, wlog, doc, err, hist>>

LoopDone ==
    /\ pc = "main"
    /\ i > Len(sources)
    /\ pc' = "exit"
    /\ UNCHANGED <<argv, i, fs, slug, html, meta, snippets, fetchVars, llmVars,
                   models_obj, writerVars, wlog, doc, err, hist>>

(***************************************************************************)
(* get_html                                                                *)
(***************************************************************************)
\* Path(source).exists(): the file is read, or reading it raises
ReadLocal ==
    /\ pc = "get_html"
    /\ \/ \E h \in HtmlSamples :
             /\ html' = h
             /\ pc' = "check_html"
             /\ err' = err
       \/ /\ Raise("get_html", "OSError")
          /\ html' = html
    /\ UNCHANGED <<argv, i, fs, slug, meta, snippets, fetchVars, llmVars,
                   models_obj, writerVars, wlog, doc, hist>>

\* no such path: the engines are tried
StartEngines ==
    /\ pc = "get_html"
    /\ pc' = "engine"
    /\ engineIdx' = 1
    /\ browser' = "unbound"
    /\ UNCHANGED <<argv, i, fs, slug, html, meta, snippets, attempts, llmVars,
                   models_obj, writerVars, wlog, doc, err, hist>>

\* every call of the try succeeds: the page's HTML is returned, and
\* get_html's locals are gone
EngineSucceeds ==
    /\ pc = "engine"
    /\ \E h \in HtmlSamples : html' = h
    /\ pc' = "check_html"
    /\ engineIdx' = 0
    /\ browser' = "unbound"
    /\ attempts' = <<>>
    /\ UNCHANGED <<argv, i, fs, slug, meta, snippets, llmVars,
                   models_obj, writerVars, wlog, doc, err, hist>>

\* what the name browser refers to in the except clause, when the try
\* failed at step: a failed launch assigned nothing
BrowserAtExcept(step) ==
    IF step = "launch" THEN browser ELSE Engines[engineIdx]

\* A call of the try raises.  The except clause calls browser.close(): on
\* an unbound name that raises UnboundLocalError; on a browser (this
\* engine's, or the one closed in the iteration before) it closes, the loop
\* goes on, and after the last engine RuntimeError is raised.
EngineFails ==
    /\ pc = "engine"
    /\ attempts' = Append(attempts, Engines[engineIdx])
    /\ \E step \in EngineSteps :
          /\ browser' = BrowserAtExcept(step)
          /\ IF BrowserAtExcept(step) = "unbound"
             THEN Raise("get_html", "UnboundLocalError") /\ engineIdx' = engineIdx
             ELSE IF engineIdx < Len(Engines)
             THEN engineIdx' = engineIdx + 1 /\ pc' = pc /\ err' = err
             ELSE Raise("get_html", "RuntimeError") /\ engineIdx' = engineIdx
    /\ UNCHANGED <<argv, i, fs, slug, html, meta, snippets, llmVars,
                   models_obj, writerVars, wlog, doc, hist>>

(***************************************************************************)
(* build_models_for_page, after the fetch                                  *)
(***************************************************************************)
\* not html, the strip forgotten
IsBlank_NoStrip(h) ==
    h = <<>>

\* not html.strip()
IsBlank(h) ==
    strip(h, Whitespace) = <<>>

\* the placeholder is written to the page file directly and returned
EmptyHtml ==
    /\ pc = "check_html"
    /\ IsBlank(html)
    /\ \E o \in WriteOutcomes :
          /\ fs' = WriteFile(fs, PagePath(slug), Dummy(source, slug), o)
          /\ wlog' = Append(wlog, [path |-> PagePath(slug), outcome |-> o])
          /\ IF o = "ok"
             THEN doc' = Dummy(source, slug) /\ pc' = "returned" /\ err' = err
             ELSE Raise("build_models_for_page", "OSError") /\ doc' = doc
    /\ UNCHANGED <<argv, i, slug, html, meta, snippets, fetchVars, llmVars,
                   models_obj, writerVars, hist>>

\* not meta and not snippets
NothingExtracted(m, sn) ==
    DOMAIN m = {} /\ sn = <<>>

\* the placeholder as the argument of write_models_to_files
DummyObj(src, sl) ==
    JDict([page_url |-> src,
           page_uid |-> "page_" \o sl,
           models |-> JList(<<>>),
           metadata |-> [title |-> <<"N", "/", "A">>, description |-> <<>>]])

\* soupify, extract_meta and extract_snippets: what the parser finds in the
\* HTML; with nothing found the placeholder goes to write_models_to_files
Parse ==
    /\ pc = "check_html"
    /\ ~IsBlank(html)
    /\ \E x \in Extractions :
          /\ meta' = x.meta
          /\ snippets' = x.snippets
          /\ IF NothingExtracted(x.meta, x.snippets)
             THEN models_obj' = DummyObj(source, slug) /\ pc' = "persist"
             ELSE models_obj' = models_obj /\ pc' = "call_llm"
    /\ UNCHANGED <<argv, i, fs, slug, html, fetchVars, llmVars, writerVars,
                   wlog, doc, err, hist>>

\* the substitute of build_models_for_page's except clause
OuterFallback(src) ==
    JDict([page |-> JDict([page_url |-> src, page_title |-> <<"N", "/", "A">>]),
           models |-> JList(<<>>)])

\* models_obj of build_models_for_page after its try
Classified(ret, src) ==
    IF ret.raised THEN OuterFallback(src) ELSE ret.value

\* try: models_obj = call_llm(meta,snippets,source) except Exception: ...
Classify ==
    /\ pc = "call_llm"
    /\ \E r \in Responses(source) :
          /\ resp' = r
          /\ llm_ret' = call_llm(meta, snippets, source, r)
          /\ models_obj' = Classified(call_llm(meta, snippets, source, r), source)
    /\ llmCalls' = llmCalls + 1
    /\ pc' = "persist"
    /\ UNCHANGED <<argv, i, fs, slug, html, meta, snippets, fetchVars,
                   writerVars, wlog, doc, err, hist>>

(***************************************************************************)
(* write_models_to_files                                                   *)
(***************************************************************************)
\* models_obj.get("models", [])
ModelsOf(obj) ==
    Get(obj.v, "models", JList(<<>>))

\* the keys of a dict, one after the other (all of them strings: which
\* comes first makes no difference to the loop)
RECURSIVE Keys(_)
Keys(ks) ==
    IF ks = {} THEN <<>>
    ELSE LET key == CHOOSE key \in ks : TRUE
         IN  <<JStr(key)>> \o Keys(ks \ {key})

\* what the for loop iterates over: the elements of a list, the characters
\* of a string, the keys of a dict
Items(j) ==
    IF j.t = "list" THEN j.v
    ELSE IF j.t = "str" THEN [k \in DOMAIN j.v |-> JStr(<<j.v[k]>>)]
    ELSE Keys(DOMAIN j.v)

\* counters = {}
NoCounters ==
    EmptyDict

\* the directory of the slug made anew: the model files in it are gone
MakeDir_Cleared(files, sl) ==
    [p \in {q \in DOMAIN files :
               \A t \in {"custom_block", "banner", "banner_001", "model"},
                  n \in 1..9 : q # ModelPath(sl, FileName(t, n))} |-> files[p]]

\* page_dir.mkdir(parents=True, exist_ok=True): the files of an existing
\* directory stay
MakeDir(files, sl) ==
    files

\* mkdir (which may fail); written = []; counters = {}; the for loop is
\* entered (a value that cannot be iterated raises TypeError)
EnterWriter ==
    /\ pc = "persist"
    /\ \/ /\ ModelsOf(models_obj).t \in {"list", "str", "dict"}
          /\ fs' = MakeDir(fs, slug)
          /\ written' = <<>>
          /\ counters' = NoCounters
          /\ mi' = 1
          /\ pc' = "write_model"
          /\ err' = err
       \/ /\ ModelsOf(models_obj).t \notin {"list", "str", "dict"}
          /\ fs' = MakeDir(fs, slug)
          /\ Raise("write_models_to_files", "TypeError")
          /\ UNCHANGED writerVars
       \/ /\ Raise("write_models_to_files", "OSError")
          /\ UNCHANGED <<fs, writerVars>>
    /\ UNCHANGED <<argv, i, slug, html, meta, snippets, fetchVars, llmVars,
                   models_obj, wlog, doc, hist>>

\* the failed write swallowed: the loop goes on
AfterFailedModelWrite_Swallowed ==
    "write_model"

\* where the run stands after a model file could not be written
AfterFailedModelWrite ==
    "raised"

\* a file name that is taken is not reused
FilePath_Fresh(sl, t, n) ==
    IF ModelPath(sl, FileName(t, n)) \in DOMAIN fs
    THEN ModelPath(sl, FileName(t, n + 100))
    ELSE ModelPath(sl, FileName(t, n))

\* fpath = page_dir / fname, relative to OUT_DIR
FilePath(sl, t, n) ==
    ModelPath(sl, FileName(t, n))

\* one iteration of the loop: m.get on a value that is no dict raises
\* AttributeError; otherwise the model's fields are written to the next
\* file of its type and the file is recorded
WriteModel ==
    /\ pc = "write_model"
    /\ mi <= Len(Items(ModelsOf(models_obj)))
    /\ LET m == Items(ModelsOf(models_obj))[mi]
           t == Get(m.v, "type", "model")
           ctrs == Bump(counters, t)
           path == FilePath(slug, t, ctrs[t])
       IN  IF m.t # "dict"
           THEN /\ Raise("write_models_to_files", "AttributeError")
                /\ UNCHANGED <<fs, wlog, writerVars>>
           ELSE \E o \in WriteOutcomes :
                   /\ fs' = WriteFile(fs, path, Get(m.v, "fields", EmptyDict), o)
                   /\ wlog' = Append(wlog, [path |-> path, outcome |-> o])
                   /\ counters' = ctrs
                   /\ IF o = "ok"
                      THEN /\ written' = Append(written, [type |-> t, path |-> path])
                           /\ mi' = mi + 1
                           /\ pc' = pc
                           /\ err' = err
                      ELSE /\ written' = written
                           /\ mi' = mi
                           /\ pc' = AfterFailedModelWrite
                           /\ err' = [in |-> "write_models_to_files",
                                      type |-> "OSError"]
    /\ UNCHANGED <<argv, i, slug, html, meta, snippets, fetchVars, llmVars,
                   models_obj, doc, hist>>

\* the page document
PageJson(obj, sl, wr) ==
    LET page == Get(obj.v, "page", JDict(EmptyDict))
    IN  [page_url |-> Get(page.v, "page_url", <<>>),
         page_uid |-> "page_" \o sl,
         models |-> wr,
         metadata |-> [title |-> Get(page.v, "page_title", <<"N", "/", "A">>),
                       description |-> <<>>]]

\* after the loop: .get on a page that is no dict raises AttributeError;
\* otherwise the page document is written and returned
WritePage ==
    /\ pc = "write_model"
    /\ mi > Len(Items(ModelsOf(models_obj)))
    /\ IF Get(models_obj.v, "page", JDict(EmptyDict)).t # "dict"
       THEN /\ Raise("write_models_to_files", "AttributeError")
            /\ UNCHANGED <<fs, wlog, doc>>
       ELSE \E o \in WriteOutcomes :
               /\ fs' = WriteFile(fs, PagePath(slug),
                                  PageJson(models_obj, slug, written), o)
               /\ wlog' = Append(wlog, [path |-> PagePath(slug), outcome |-> o])
               /\ IF o = "ok"
                  THEN /\ doc' = PageJson(models_obj, slug, written)
                       /\ pc' = "returned"
                       /\ err' = err
                  ELSE /\ Raise("write_models_to_files", "OSError")
                       /\ doc' = doc
    /\ UNCHANGED <<argv, i, slug, html, meta, snippets, fetchVars, llmVars,
                   models_obj, writerVars, hist>>

(***************************************************************************)
(* Back in the driver.                                                     *)
(***************************************************************************)
\* what is kept of a finished run
RunRecord(status) ==
    IF status = "returned"
    THEN [source |-> source, slug |-> slug, status |-> status,
          html |-> html, meta |-> meta, snippets |-> snippets, resp |-> resp,
          doc |-> doc, fsAfter |-> fs]
    ELSE [source |-> source, slug |-> slug, status |-> status,
          html |-> <<>>, meta |-> EmptyDict, snippets |-> <<>>, resp |-> NoResp,
          doc |-> NoDoc, fsAfter |-> fs]

ResetLocals ==
    /\ slug' = ""
    /\ html' = <<>>
    /\ meta' = EmptyDict
    /\ snippets' = <<>>
    /\ engineIdx' = 0
    /\ browser' = "unbound"
    /\ attempts' = <<>>
    /\ resp' = NoResp
    /\ llm_ret' = NoRet
    /\ llmCalls' = 0
    /\ models_obj' = JNull
    /\ written' = <<>>
    /\ counters' = EmptyDict
    /\ mi' = 0
    /\ wlog' = <<>>
    /\ doc' = NoDoc
    /\ err' = NoErr

\* the failure ends the loop
AfterReport_Break ==
    "exit"

\* where the driver goes after its except clause
AfterReport ==
    "main"

\* print(json.dumps(out, ...)): the loop takes the next source
PrintDocument ==
    /\ pc = "returned"
    /\ hist' = Append(hist, RunRecord("returned"))
    /\ i' = i + 1
    /\ pc' = "main"
    /\ ResetLocals
    /\ UNCHANGED <<argv, fs>>

\* except Exception as e: print(...): the loop takes the next source
ReportFailure ==
    /\ pc = "raised"
    /\ hist' = Append(hist, RunRecord("raised"))
    /\ i' = i + 1
    /\ pc' = AfterReport
    /\ ResetLocals
    /\ UNCHANGED <<argv, fs>>

Next ==
    \/ StartSource
    \/ LoopDone
    \/ ReadLocal
    \/ StartEngines
    \/ EngineSucceeds
    \/ EngineFails
    \/ EmptyHtml
    \/ Parse
    \/ Classify
    \/ EnterWriter
    \/ WriteModel
    \/ WritePage
    \/ PrintDocument
    \/ ReportFailure

Spec ==
    Init /\ [][Next]_vars

(***************************************************************************)
(* Properties.                                                             *)
(***************************************************************************)
NA ==
    <<"N", "/", "A">>

\* the run is inside, or back from, write_models_to_files
WriterCalled ==
    models_obj # JNull

\* a parsed response that carries a non-empty models list
HasModelsList(j) ==
    /\ j.t = "dict"
    /\ "models" \in DOMAIN j.v
    /\ j.v["models"].t = "list"
    /\ j.v["models"].v # <<>>

\* the classifier's effective model list is empty
EffectivelyEmpty(r) ==
    \/ r.kind \in {"svc_error", "parse_error"}
    \/ r.kind = "json" /\ ~HasModelsList(r.value)

\* C1: when the classifier's effective model list is empty (the service
\* failed, its answer did not parse, or the parsed answer carries no
\* non-empty models list), a run that classified K snippets persists and
\* returns a document of exactly K custom_block models in snippet order,
\* the k-th file holding title = text[:60] and description = text[:160].
C1_FallbackPerSnippet ==
    (pc \in {"returned", "raised"} /\ llmCalls = 1 /\ EffectivelyEmpty(resp)
        /\ err.type # "OSError")
    => /\ pc = "returned"
       /\ fs[PagePath(slug)] = FileOf(doc)
       /\ Len(doc.models) = Len(snippets)
       /\ \A k \in DOMAIN snippets :
             /\ doc.models[k].type = "custom_block"
             /\ doc.models[k].path \in DOMAIN fs
             /\ fs[doc.models[k].path].complete
             /\ fs[doc.models[k].path].json.title
                   = SubSeq(snippets[k].text, 1,
                            IF Len(snippets[k].text) < 60
                            THEN Len(snippets[k].text) ELSE 60)
             /\ fs[doc.models[k].path].json.description
                   = SubSeq(snippets[k].text, 1,
                            IF Len(snippets[k].text) < 160
                            THEN Len(snippets[k].text) ELSE 160)
             /\ \A j \in DOMAIN snippets :
                   j # k => doc.models[j].path # doc.models[k].path

\* C2: whatever the service answers, what call_llm returns for K >= 1
\* snippets has a models list of at least K entries.
C2_AtLeastOnePerSnippet ==
    (pc = "persist" /\ llmCalls = 1 /\ ~llm_ret.raised /\ Len(snippets) >= 1)
    => /\ ModelsOf(llm_ret.value).t = "list"
       /\ Len(ModelsOf(llm_ret.value).v) >= Len(snippets)

\* C3: a run raises only for a fetch failure or a file system write
\* failure: once the HTML is fetched, every outcome of the classification
\* stage is followed by the persistence step, which writes and returns a
\* page document unless a write fails.
C3_OnlyFetchAndWriteAbort ==
    pc = "raised" => (err.in = "get_html" \/ err.type = "OSError")

\* the positions of wlog at which the page file of the slug is written
PageWrites ==
    {k \in DOMAIN wlog : wlog[k].path = PagePath(slug)}

\* C4: in a call of write_models_to_files the page file is written only
\* after every model file of the call was written successfully; the paths
\* of the written page document name files that exist under models/<slug>/,
\* its entries hold type and path only, and after a failed model write the
\* page file is not written.
C4_PageAfterModels ==
    WriterCalled =>
       /\ \A k \in PageWrites :
             /\ k = Len(wlog)
             /\ k = Len(Items(ModelsOf(models_obj))) + 1
             /\ \A j \in 1..(k - 1) : wlog[j].outcome = "ok"
       /\ (\E j \in DOMAIN wlog :
              wlog[j].path # PagePath(slug) /\ wlog[j].outcome # "ok")
          => (PageWrites = {} /\ pc = "raised")
       /\ pc = "returned" =>
             /\ fs[PagePath(slug)] = FileOf(doc)
             /\ \A n \in DOMAIN doc.models :
                   /\ DOMAIN doc.models[n] = {"type", "path"}
                   /\ doc.models[n].path \in DOMAIN fs
                   /\ fs[doc.models[n].path].complete
                   /\ doc.models[n].path = wlog[n].path
                   /\ \E f \in {FileName(doc.models[n].type, c) :
                                   c \in 1..Len(doc.models)} :
                         doc.models[n].path = "models/" \o slug \o "/" \o f

C4_Witness ==
    /\ WriterCalled
    /\ pc = "returned"
    /\ Len(doc.models) >= 2

\* C5: for a source that is no local path the engines are tried in the
\* order firefox, chromium, each at most once, and the fetch raises only
\* after every engine was tried and failed.
C5_EveryEngineTried ==
    /\ Len(attempts) <= Len(Engines)
    /\ \A k \in DOMAIN attempts : attempts[k] = Engines[k]
    /\ (pc = "raised" /\ err.in = "get_html" /\ attempts # <<>>)
          => attempts = <<"firefox", "chromium">>

\* C6: with HTML that is empty or only whitespace, and with nothing
\* extracted, the classifier is never invoked, and the run (unless a write
\* fails) writes the page file and returns a document with no models and
\* the title N/A.
C6_EmptyContent ==
    (/\ pc \in {"persist", "write_model", "returned", "raised"}
     /\ err.in # "get_html"
     /\ \/ \A k \in DOMAIN html : html[k] \in {" ", "\n", "\t", "\r"}
        \/ DOMAIN meta = {} /\ Len(snippets) = 0)
    => /\ llmCalls = 0
       /\ pc = "raised" => err.type = "OSError"
       /\ pc = "returned" =>
             /\ PagePath(slug) \in DOMAIN fs
             /\ fs[PagePath(slug)] = FileOf(doc)
             /\ doc.models = <<>>
             /\ doc.metadata.title = NA

C6_Witness ==
    /\ pc = "returned"
    /\ html = <<" ", "\n">>
    /\ PagePath(slug) \in DOMAIN fs

\* C7: every source of the list is processed, in order: a failure of one
\* run is caught and reported (the driver takes a step from it), and the
\* loop ends only when the runs of all sources have been started and ended.
C7_EverySourceProcessed ==
    /\ Len(hist) = i - 1
    /\ \A j \in DOMAIN hist : j <= Len(sources) /\ hist[j].source = sources[j]
    /\ pc = "raised" => ENABLED ReportFailure
    /\ pc = "returned" => ENABLED PrintDocument
    /\ pc \notin {"main", "exit"} => i <= Len(sources)
    /\ pc = "exit" => Len(hist) = Len(sources)

C7_Witness ==
    /\ pc = "exit"
    /\ Len(hist) = 2
    /\ hist[1].status = "raised"
    /\ hist[2].status = "returned"

\* two runs in a row with the same source, HTML, extraction and classification
SameRun(a, b) ==
    /\ a.status = "returned"
    /\ b.status = "returned"
    /\ a.source = b.source
    /\ a.html = b.html
    /\ a.meta = b.meta
    /\ a.snippets = b.snippets
    /\ a.resp = b.resp

\* C8: a second run on the same source with the same fetched HTML and the
\* same classification leaves the page file and the model files as the
\* first run left them, and returns the same document.
C8_Idempotent ==
    \A j \in 1..(Len(hist) - 1) :
       SameRun(hist[j], hist[j + 1])
       => /\ hist[j + 1].fsAfter = hist[j].fsAfter
          /\ hist[j + 1].doc = hist[j].doc

C8_Witness ==
    /\ Len(hist) = 2
    /\ SameRun(hist[1], hist[2])
    /\ Len(hist[2].doc.models) >= 2

\* n as three decimal digits
ThreeDigits(n) ==
    Digits[(n \div 100) + 1] \o Digits[((n \div 10) % 10) + 1] \o Digits[(n % 10) + 1]

\* the type write_models_to_files reads from a model
TypeOf(m) ==
    IF "type" \in DOMAIN m.v THEN m.v["type"] ELSE "model"

\* C9: the k-th model of type t in classified.models is written to
\* models/<slug>/<t>_<k as 3 digits>.json; the written list has the length
\* and order of classified.models, and no two models of a call share a path.
C9_PerTypeNumbering ==
    (WriterCalled /\ pc = "returned") =>
       LET ms == ModelsOf(models_obj).v
       IN  /\ Len(doc.models) = Len(ms)
           /\ \A n \in DOMAIN ms :
                 LET k == Cardinality({j \in 1..n : TypeOf(ms[j]) = TypeOf(ms[n])})
                     path == "models/" \o slug \o "/" \o TypeOf(ms[n])
                                \o "_" \o ThreeDigits(k) \o ".json"
                 IN  /\ doc.models[n].type = TypeOf(ms[n])
                     /\ doc.models[n].path = path
                     /\ wlog[n] = [path |-> path, outcome |-> "ok"]
                     /\ fs[path].json = (IF "fields" \in DOMAIN ms[n].v
                                         THEN ms[n].v["fields"] ELSE EmptyDict)
           /\ \A n, q \in DOMAIN ms :
                 n # q => doc.models[n].path # doc.models[q].path

C9_Witness ==
    /\ WriterCalled
    /\ pc = "returned"
    /\ Len(doc.models) = 4
    /\ doc.models[4].path = "models/a-b/banner_002.json"
    /\ doc.models[2].path = "models/a-b/banner_001_001.json"

\* the paths a page document references
Referenced(d) ==
    {d.models[n].path : n \in DOMAIN d.models}

\* C10: a later run on the same slug numbers its files from 1 again and
\* deletes nothing: the files an earlier run wrote are still there, also
\* those the new page document no longer references, and every path the new
\* page document references exists.
C10_StaleFilesRemain ==
    \A j \in 1..(Len(hist) - 1) :
       /\ DOMAIN hist[j].fsAfter \subseteq DOMAIN hist[j + 1].fsAfter
       /\ (/\ hist[j].status = "returned"
           /\ hist[j + 1].status = "returned"
           /\ hist[j].slug = hist[j + 1].slug)
          => /\ Referenced(hist[j].doc) \subseteq DOMAIN hist[j + 1].fsAfter
             /\ Referenced(hist[j + 1].doc) \subseteq DOMAIN hist[j + 1].fsAfter
             /\ \A n \in DOMAIN hist[j + 1].doc.models :
                   \E q \in 1..n :
                      /\ hist[j + 1].doc.models[q].type = hist[j + 1].doc.models[n].type
                      /\ hist[j + 1].doc.models[q].path =
                            "models/" \o hist[j + 1].slug \o "/"
                               \o hist[j + 1].doc.models[n].type \o "_001.json"

C10_Witness ==
    /\ Len(hist) = 2
    /\ hist[1].status = "returned"
    /\ hist[2].status = "returned"
    /\ hist[1].slug = hist[2].slug
    /\ hist[1].source # hist[2].source
    /\ "models/a-b/custom_block_002.json" \in Referenced(hist[1].doc)
    /\ Referenced(hist[2].doc) = {"models/a-b/custom_block_001.json"}
    /\ "models/a-b/custom_block_002.json" \in DOMAIN hist[2].fsAfter

=============================================================================
